---- MODULE Spec2Model ----
(***************************************************************************)
(* Model of the two log-synchronisation scripts of gcpjson:                *)
(*   src/index.ts          incremental sync (downloadAndSaveJSON)          *)
(*   src/unnamed/part_000  daily aggregation (processLogs)                 *)
(* Strings are sequences of one-character strings, so that the regular     *)
(* expression, the substring test, the date formatting and the JSON parser *)
(* are computed character by character as the code computes them.          *)
(* Instants are ticks on the local time line: a day has the ticks of       *)
(* TimesOfDay, tick 0 being local midnight (a constant zone offset, no     *)
(* DST).                                                                   *)
(***************************************************************************)
EXTENDS Integers, Sequences, FiniteSets

\* ------------------------------------------------------------------ bounds
MaxDay == 2          \* calendar days covered by creation timestamps
MaxEntries == 3      \* entries of the directory the watermark is resolved from
MaxObjects == 2      \* objects of the bucket
MaxLen == 5          \* length of the texts given to parseJsonContent
MaxRuns == 2         \* runs of the sync program, one after the other

\* ------------------------------------------------------- character strings
DigitChars == <<"0", "1", "2", "3", "4", "5", "6", "7", "8", "9">>

IsDigit(c) == \E d \in 1..10 : DigitChars[d] = c

DigitVal(c) == (CHOOSE d \in 1..10 : DigitChars[d] = c) - 1

\* parseInt on a run of decimal digits
RECURSIVE ParseInt(_)
ParseInt(ds) ==
  IF ds = <<>> THEN 0
  ELSE 10 * ParseInt(SubSeq(ds, 1, Len(ds) - 1)) + DigitVal(ds[Len(ds)])

\* Number.prototype.toString of a non-negative integer
RECURSIVE IntToString(_)
IntToString(n) ==
  IF n < 10 THEN <<DigitChars[n + 1]>>
  ELSE IntToString(n \div 10) \o <<DigitChars[(n % 10) + 1]>>

\* String.prototype.padStart(2, "0")
PadStart2(s) == IF Len(s) >= 2 THEN s ELSE <<"0">> \o s

\* s has t at position p (1-based)
HasAt(s, t, p) ==
  /\ p >= 1
  /\ p + Len(t) - 1 <= Len(s)
  /\ \A j \in 1..Len(t) : s[p + j - 1] = t[j]

EndsWith(s, t) == Len(s) >= Len(t) /\ HasAt(s, t, Len(s) - Len(t) + 1)

Includes(s, t) == \E p \in 1..(Len(s) + 1) : HasAt(s, t, p)

DotJson == <<".", "j", "s", "o", "n">>

\* ------------------------------------------------------------ calendar
IsLeap(y) == (y % 4 = 0 /\ y % 100 # 0) \/ y % 400 = 0

DaysInMonth(y, m) ==
  IF m = 2 THEN (IF IsLeap(y) THEN 29 ELSE 28)
  ELSE IF m \in {4, 6, 9, 11} THEN 30 ELSE 31

DaysBeforeYear(y) ==
  365 * (y - 1) + ((y - 1) \div 4) - ((y - 1) \div 100) + ((y - 1) \div 400)

RECURSIVE DaysBeforeMonth(_, _)
DaysBeforeMonth(y, m) ==
  IF m <= 1 THEN 0 ELSE DaysBeforeMonth(y, m - 1) + DaysInMonth(y, m - 1)

\* new Date(year, monthIndex, day): the day number of local midnight.  Years
\* 0..99 mean 1900..1999; a month index outside 0..11 and a day outside the
\* month carry over into the neighbouring months and years.
MakeDay(year, monthIndex, day) ==
  LET y0 == IF year >= 0 /\ year <= 99 THEN 1900 + year ELSE year
      y  == y0 + (monthIndex \div 12)
      m  == (monthIndex % 12) + 1
  IN  DaysBeforeYear(y) + DaysBeforeMonth(y, m) + (day - 1)

\* the times of a day that the comparisons of index.ts tell apart: midnight,
\* which is the instant new Date(year, month, day) stands for, and later
TimesOfDay == {0, 1}

TicksPerDay == Cardinality(TimesOfDay)

EpochDay == MakeDay(2024, 1, 29)

Days == EpochDay .. (EpochDay + MaxDay - 1)

Instants == { d * TicksPerDay + t : d \in Days, t \in TimesOfDay }

\* the calendar date of a day number: getFullYear, getMonth() + 1, getDate
CivilOf(n) ==
  LET y == CHOOSE x \in 2024..2025 :
              DaysBeforeYear(x) <= n /\ n < DaysBeforeYear(x + 1)
      rest == n - DaysBeforeYear(y)
      m == CHOOSE x \in 1..12 :
              /\ DaysBeforeMonth(y, x) <= rest
              /\ rest < DaysBeforeMonth(y, x) + DaysInMonth(y, x)
  IN  <<y, m, rest - DaysBeforeMonth(y, m) + 1>>

\* formatDate: DD-MM-YYYY in local time
formatDate(date) ==
  LET c == CivilOf(date \div TicksPerDay)
  IN  PadStart2(IntToString(c[3])) \o <<"-">> \o PadStart2(IntToString(c[2]))
        \o <<"-">> \o IntToString(c[1])

\* formatDatePath: YYYY/MM/DD of the UTC day
formatDatePath(day) ==
  LET c == CivilOf(day)
  IN  IntToString(c[1]) \o <<"/">> \o PadStart2(IntToString(c[2]))
        \o <<"/">> \o PadStart2(IntToString(c[3]))

\* isFromToday: the clock is read at every call; today is its UTC day then
isFromToday(filePath, today) == Includes(filePath, formatDatePath(today))

\* ------------------------------------------------- Watermark (index.ts)
\* `${dateStr}-S${i}.json`
SeqFileName(dateStr, n) == dateStr \o <<"-", "S">> \o IntToString(n) \o DotJson

\* length of the longest run of digits of s that starts at p
RECURSIVE DigitRun(_, _)
DigitRun(s, p) ==
  IF p <= Len(s) /\ IsDigit(s[p]) THEN 1 + DigitRun(s, p + 1) ELSE 0

\* /(\d{2})-(\d{2})-(\d{4})-S(\d+)\.json/ matches s at position p.  The greedy
\* \d+ takes the whole run of digits: after a shorter run comes a digit, never
\* the dot.
MatchesAt(s, p) ==
  /\ p + 12 <= Len(s)
  /\ \A j \in {0, 1, 3, 4, 6, 7, 8, 9} : IsDigit(s[p + j])
  /\ s[p + 2] = "-" /\ s[p + 5] = "-" /\ s[p + 10] = "-" /\ s[p + 11] = "S"
  /\ DigitRun(s, p + 12) >= 1
  /\ HasAt(s, DotJson, p + 12 + DigitRun(s, p + 12))

\* file.match(...): the leftmost match, as the groups day, month, year,
\* sequence; ok is FALSE for null
Match(file) ==
  LET ps == { p \in 1..Len(file) : MatchesAt(file, p) }
  IN  IF ps = {} THEN [ok |-> FALSE, day |-> <<>>, month |-> <<>>,
                       year |-> <<>>, sequence |-> <<>>]
      ELSE LET p == CHOOSE q \in ps : \A r \in ps : q <= r
           IN  [ok |-> TRUE,
                day |-> SubSeq(file, p, p + 1),
                month |-> SubSeq(file, p + 3, p + 4),
                year |-> SubSeq(file, p + 6, p + 9),
                sequence |-> SubSeq(file, p + 12,
                                    p + 11 + DigitRun(file, p + 12))]

\* null, and { date, sequence }
NoProcessedFile == [has |-> FALSE, date |-> 0, sequence |-> -1]

Processed(date, seq) == [has |-> TRUE, date |-> date, sequence |-> seq]

\* ForEachFile with the date test of line 42 written >= instead of >
ForEachFileSameDateReplaces(latest, file) ==
  IF ~EndsWith(file, DotJson) THEN latest
  ELSE LET match == Match(file)
       IN  IF ~match.ok THEN latest
           ELSE LET date == MakeDay(ParseInt(match.year),
                                    ParseInt(match.month) - 1,
                                    ParseInt(match.day)) * TicksPerDay
                    seq == ParseInt(match.sequence)
                IN  IF ~latest.has \/ date >= latest.date
                      THEN Processed(date, seq)
                    ELSE latest

\* the body of files.forEach in getLatestProcessedFile: latest is the pair
\* (latestDate, latestSequence), latestDate = null being has = FALSE
ForEachFile(latest, file) ==
  IF ~EndsWith(file, DotJson) THEN latest
  ELSE LET match == Match(file)
       IN  IF ~match.ok THEN latest
           ELSE LET date == MakeDay(ParseInt(match.year),
                                    ParseInt(match.month) - 1,
                                    ParseInt(match.day)) * TicksPerDay
                    seq == ParseInt(match.sequence)
                IN  IF ~latest.has \/ date > latest.date
                      THEN Processed(date, seq)
                    ELSE IF date = latest.date /\ seq > latest.sequence
                      THEN Processed(latest.date, seq)
                    ELSE latest

RECURSIVE ForEachFiles(_, _)
ForEachFiles(latest, files) ==
  IF files = <<>> THEN latest
  ELSE ForEachFiles(ForEachFile(latest, Head(files)), Tail(files))

getLatestProcessedFile(files) == ForEachFiles(NoProcessedFile, files)

\* ------------------------------------------------------------- sequences
\* every order in which the members of a finite set can be listed
Orderings(S) ==
  { f \in [1..Cardinality(S) -> S] : \A a, b \in 1..Cardinality(S) :
        a # b => f[a] # f[b] }

Range(s) == { s[j] : j \in 1..Len(s) }

\* String.prototype.trim over the white space of the texts: blank, line feed
IsSpace(c) == c \in {" ", "\n"}

RECURSIVE TrimStart(_)
TrimStart(s) ==
  IF s # <<>> /\ IsSpace(Head(s)) THEN TrimStart(Tail(s)) ELSE s

RECURSIVE TrimEnd(_)
TrimEnd(s) ==
  IF s # <<>> /\ IsSpace(s[Len(s)]) THEN TrimEnd(SubSeq(s, 1, Len(s) - 1))
  ELSE s

\* Trim that leaves the white space at the end
TrimStartOnly(s) == TrimStart(s)

Trim(s) == TrimEnd(TrimStart(s))

\* InsertByCreated that keeps the order of arrival
InsertUnsorted(sorted, x) == Append(sorted, x)

\* Array.prototype.sort((a, b) => a.created - b.created): a stable sort
RECURSIVE InsertByCreated(_, _)
InsertByCreated(sorted, x) ==
  IF sorted = <<>> THEN <<x>>
  ELSE IF sorted[Len(sorted)].created <= x.created THEN Append(sorted, x)
  ELSE Append(InsertByCreated(SubSeq(sorted, 1, Len(sorted) - 1), x),
              sorted[Len(sorted)])

RECURSIVE SortByCreated(_)
SortByCreated(s) ==
  IF s = <<>> THEN <<>>
  ELSE InsertByCreated(SortByCreated(SubSeq(s, 1, Len(s) - 1)), s[Len(s)])

\* ------------------------------------------------- JSON (part_000)
\* a JSON value: a number n, or an array of the values els
Num(n) == [t |-> "num", n |-> n, els |-> <<>>]

Arr(els) == [t |-> "arr", n |-> 0, els |-> els]

ParseError == [ok |-> FALSE, val |-> Num(0), next |-> 0]

Parsed(val, next) == [ok |-> TRUE, val |-> val, next |-> next]

\* the first position from p on that holds no JSON white space
RECURSIVE SkipSpace(_, _)
SkipSpace(s, p) ==
  IF p <= Len(s) /\ IsSpace(s[p]) THEN SkipSpace(s, p + 1) ELSE p

\* the JSON grammar over digits, brackets, commas and white space: a value
\* that starts at p, and the elements of an array up to its closing bracket.
\* A number is 0 or a run of digits that does not start with 0.
RECURSIVE ParseValue(_, _), ParseElements(_, _, _, _)
ParseValue(s, p) ==
  IF p > Len(s) THEN ParseError
  ELSE IF IsDigit(s[p])
    THEN LET len == IF s[p] = "0" THEN 1 ELSE DigitRun(s, p)
         IN  Parsed(Num(ParseInt(SubSeq(s, p, p + len - 1))), p + len)
  ELSE IF s[p] = "[" THEN ParseElements(s, SkipSpace(s, p + 1), <<>>, FALSE)
  ELSE ParseError

ParseElements(s, p, els, afterComma) ==
  IF p > Len(s) THEN ParseError
  ELSE IF s[p] = "]" /\ ~afterComma /\ els = <<>> THEN Parsed(Arr(els), p + 1)
  ELSE LET v == ParseValue(s, p)
           q == SkipSpace(s, v.next)
       IN  IF ~v.ok \/ q > Len(s) THEN ParseError
           ELSE IF s[q] = "," THEN ParseElements(s, SkipSpace(s, q + 1),
                                                 Append(els, v.val), TRUE)
           ELSE IF s[q] = "]" THEN Parsed(Arr(Append(els, v.val)), q + 1)
           ELSE ParseError

\* JSON.parse: one value with white space around it; ok is FALSE for a throw
JSONParse(s) ==
  LET v == ParseValue(s, SkipSpace(s, 1))
  IN  IF v.ok /\ SkipSpace(s, v.next) > Len(s) THEN v ELSE ParseError

\* JSON.stringify
RECURSIVE JSONStringify(_), StringifyElements(_)
JSONStringify(v) ==
  IF v.t = "num" THEN IntToString(v.n)
  ELSE <<"[">> \o StringifyElements(v.els) \o <<"]">>

StringifyElements(els) ==
  IF els = <<>> THEN <<>>
  ELSE IF Len(els) = 1 THEN JSONStringify(els[1])
  ELSE JSONStringify(els[1]) \o <<",">> \o StringifyElements(Tail(els))

\* String.prototype.split("\n")
RECURSIVE SplitLines(_)
SplitLines(s) ==
  LET at == { p \in 1..Len(s) : s[p] = "\n" }
  IN  IF at = {} THEN <<s>>
      ELSE LET p == CHOOSE q \in at : \A r \in at : q <= r
           IN  <<SubSeq(s, 1, p - 1)>> \o SplitLines(SubSeq(s, p + 1, Len(s)))

\* ParseLines with the loop left at the first line that fails to parse
RECURSIVE ParseLinesStopAtError(_, _)
ParseLinesStopAtError(results, lines) ==
  IF lines = <<>> THEN results
  ELSE LET trimmedLine == Trim(Head(lines))
       IN  IF trimmedLine = <<>> THEN ParseLinesStopAtError(results, Tail(lines))
           ELSE IF JSONParse(trimmedLine).ok
             THEN ParseLinesStopAtError(Append(results, JSONParse(trimmedLine).val),
                                        Tail(lines))
           ELSE results

\* lines 55-66: the loop over the lines; a line that fails to parse is
\* warned about and left out
RECURSIVE ParseLines(_, _)
ParseLines(results, lines) ==
  IF lines = <<>> THEN results
  ELSE LET trimmedLine == Trim(Head(lines))
       IN  IF trimmedLine = <<>> THEN ParseLines(results, Tail(lines))
           ELSE IF JSONParse(trimmedLine).ok
             THEN ParseLines(Append(results, JSONParse(trimmedLine).val),
                             Tail(lines))
           ELSE ParseLines(results, Tail(lines))

\* lines 42-70
parseJsonContent(content) ==
  LET trimmedContent == Trim(content)
      parsed == JSONParse(trimmedContent)
  IN  IF trimmedContent = <<>> THEN <<>>
      ELSE IF parsed.ok
        THEN (IF parsed.val.t = "arr" THEN parsed.val.els ELSE <<parsed.val>>)
      ELSE ParseLines(<<>>, SplitLines(trimmedContent))

\* filesByDate: the Map of date string to files, in insertion order
RECURSIVE GroupByDate(_, _)
GroupByDate(groups, rest) ==
  IF rest = <<>> THEN groups
  ELSE LET fileData == Head(rest)
           dateStr == formatDate(fileData.created)
           at == { j \in 1..Len(groups) : groups[j].dateStr = dateStr }
       IN  IF at = {}
             THEN GroupByDate(Append(groups, [dateStr |-> dateStr,
                                              dateFiles |-> <<fileData>>]),
                              Tail(rest))
           ELSE LET j == CHOOSE x \in at : TRUE
                IN  GroupByDate([groups EXCEPT ![j].dateFiles =
                                    Append(@, fileData)], Tail(rest))

\* fs.writeFileSync(path, text): creates the file or replaces its content
WriteFile(d, name, text) ==
  [n \in (DOMAIN d) \cup {name} |-> IF n = name THEN text ELSE d[n]]

\* ---------------------------------------------------------------- state
VARIABLES
  dir,            \* OUTPUT_FOLDER: file name -> content
  bucket,         \* the remote objects: records name, created, content
  pc,             \* position of downloadAndSaveJSON
  dirBefore,      \* OUTPUT_FOLDER as it was when the run started
  lastProcessed,  \* result of getLatestProcessedFile()
  files,          \* result of getFiles()
  k,              \* index of the filter loop over files
  jsonFiles,      \* the filtered, then sorted, files
  filesByDate,    \* the groups
  g,              \* index of the current group
  i,              \* index within the current group
  console,        \* the lines logged for the objects processed
  logPc,          \* position of processLogs
  now,            \* the clock: the current UTC day
  today,          \* line 74: the UTC day when the run started
  logFiles,       \* line 79: result of getFiles()
  logK,           \* index of the filter loop over logFiles
  logJsonFiles,   \* line 107: today's files, then sorted
  logPos,         \* index of the loop of line 136
  writeStream,    \* "none", "open" or "ended"
  logDirBefore,   \* OUTPUT_FOLDER as it was when processLogs started
  logConsole,     \* the lines processLogs logged for the objects
  content,        \* parseJsonContent: the argument of a call
  results,        \* parseJsonContent: what the call returned
  normPc,         \* parseJsonContent: "call" before, "return" after the call
  runs            \* the sync runs that ended: what they found and left

syncVars == <<pc, dirBefore, lastProcessed, files, k, jsonFiles, filesByDate,
              g, i, console, runs>>

logVars == <<logPc, today, logFiles, logK, logJsonFiles, logPos, writeStream,
             logDirBefore, logConsole>>

normVars == <<content, results, normPc>>

vars == <<dir, bucket, now, syncVars, logVars, normVars>>

\* ------------------------------------------------------- initial states
Txt == <<".", "t", "x", "t">>

\* an object that is no .json file
OtherObject(name) ==
  [name |-> name \o Txt, created |-> EpochDay * TicksPerDay, content |-> <<"7">>]

\* the buckets of at most MaxObjects objects: .json objects of the names,
\* each created at one of the instants with one of the texts of its name, and
\* the object other
Buckets(names, instants, texts, other) ==
  LET all == UNION { texts[n] : n \in names }
      object(n, c) == [name |-> n \o DotJson, created |-> c[1], content |-> c[2]]
      choices(S) == { h \in [S -> instants \X all] : \A n \in S : h[n][2] \in texts[n] }
      shapes == { x \in (SUBSET names) \X {{}, {other}} :
                    Cardinality(x[1]) + Cardinality(x[2]) <= MaxObjects }
  IN  UNION { { { object(n, f[n]) : n \in x[1] } \cup x[2] : f \in choices(x[1]) } :
                x \in shapes }

ObjectNames == { <<"a">>, <<"b">>, <<"c">> }

\* what download() returns: a blank text, or the text of the object, which
\* has white space around it
ObjectTexts ==
  [n \in ObjectNames |->
     {<<" ">>, IF n = <<"a">> THEN <<" ", "1", "\n">>
               ELSE IF n = <<"b">> THEN <<"2">> ELSE <<"1", "2", " ">>}]

OldText == <<"9">>

\* the output directories: empty, or the files S0, or S0 and S1, of one day
SyncDirs ==
  {<<>>}
  \cup { [n \in {SeqFileName(formatDate(d * TicksPerDay), 0)} |-> OldText] : d \in Days }
  \cup { [n \in {SeqFileName(formatDate(d * TicksPerDay), 0),
                 SeqFileName(formatDate(d * TicksPerDay), 1)} |-> OldText] : d \in Days }

Dirs(names, max) ==
  UNION { [S -> {OldText}] : S \in { T \in SUBSET names : Cardinality(T) <= max } }

SyncIdle ==
  /\ pc = "idle"
  /\ dirBefore = dir
  /\ lastProcessed = NoProcessedFile
  /\ files = <<>>
  /\ k = 1
  /\ jsonFiles = <<>>
  /\ filesByDate = <<>>
  /\ g = 1
  /\ i = 0
  /\ console = <<>>
  /\ runs = <<>>

LogsIdle ==
  /\ logPc = "idle"
  /\ today = now
  /\ logFiles = <<>>
  /\ logK = 1
  /\ logJsonFiles = <<>>
  /\ logPos = 1
  /\ writeStream = "none"
  /\ logDirBefore = dir
  /\ logConsole = <<>>

NormIdle ==
  /\ content = <<>>
  /\ results = <<>>
  /\ normPc = "return"

Init ==
  /\ dir \in SyncDirs
  /\ bucket \in Buckets(ObjectNames, Instants, ObjectTexts, OtherObject(<<"d">>))
  /\ now = EpochDay
  /\ SyncIdle
  /\ LogsIdle
  /\ NormIdle

\* ------------------------------------------- downloadAndSaveJSON (index.ts)
\* line 64: the directory is read in whatever order the file system lists it
SyncResolve ==
  /\ pc = "idle"
  /\ \E listing \in Orderings(DOMAIN dir) :
        lastProcessed' = getLatestProcessedFile(listing)
  /\ dirBefore' = dir
  /\ pc' = "list"
  /\ UNCHANGED <<dir, bucket, files, k, jsonFiles, filesByDate, g, i, console>>
  /\ UNCHANGED <<now, runs, logVars, normVars>>

\* line 73: getFiles() resolves with the objects in some order, or rejects
SyncList ==
  /\ pc = "list"
  /\ \/ /\ \E listing \in Orderings(bucket) : files' = listing
        /\ pc' = "filter"
     \/ /\ pc' = "failed"
        /\ UNCHANGED files
  /\ UNCHANGED <<dir, bucket, dirBefore, lastProcessed, k, jsonFiles,
                 filesByDate, g, i, console>>
  /\ UNCHANGED <<now, runs, logVars, normVars>>

\* IsNewer with the test of line 85 written < instead of <=
IsNewerOrEqual(latest, created) == ~(latest.has /\ created < latest.date)

\* line 85: the file is kept unless it is not newer than the watermark
IsNewer(latest, created) == ~(latest.has /\ created <= latest.date)

\* lines 78-92: one iteration of the filter loop; getMetadata() may reject
SyncFilter ==
  /\ pc = "filter"
  /\ k <= Len(files)
  /\ LET file == files[k]
     IN  \/ /\ ~EndsWith(file.name, DotJson)
            /\ k' = k + 1
            /\ UNCHANGED <<jsonFiles, pc>>
         \/ /\ EndsWith(file.name, DotJson)
            /\ \/ /\ k' = k + 1
                  /\ jsonFiles' = IF IsNewer(lastProcessed, file.created)
                                    THEN Append(jsonFiles, file)
                                    ELSE jsonFiles
                  /\ UNCHANGED pc
               \/ /\ pc' = "failed"
                  /\ UNCHANGED <<k, jsonFiles>>
  /\ UNCHANGED <<dir, bucket, dirBefore, lastProcessed, files, filesByDate,
                 g, i, console>>
  /\ UNCHANGED <<now, runs, logVars, normVars>>

\* lines 95-106: sort by creation time and group by local date
SyncGroup ==
  /\ pc = "filter"
  /\ k > Len(files)
  /\ jsonFiles' = SortByCreated(jsonFiles)
  /\ filesByDate' = GroupByDate(<<>>, jsonFiles')
  /\ g' = 1
  /\ i' = 0
  /\ pc' = "process"
  /\ UNCHANGED <<dir, bucket, dirBefore, lastProcessed, files, k, console>>
  /\ UNCHANGED <<now, runs, logVars, normVars>>

\* NextPos with the catch block outside the loops: an error ends them
NextPosErrorEnds(what, groups, gg, ii) ==
  IF what \in {"download failed", "write failed"} THEN <<Len(groups) + 1, 0>>
  ELSE IF ii + 1 < Len(groups[gg].dateFiles) THEN <<gg, ii + 1>>
  ELSE <<gg + 1, 0>>

\* the position of the two nested loops of lines 109-135 after an iteration
\* that ended as `what`: the continue of line 122, the end of the try block
\* and the catch of lines 131-133 all go on with the next file
NextPos(what, groups, gg, ii) ==
  IF ii + 1 < Len(groups[gg].dateFiles) THEN <<gg, ii + 1>> ELSE <<gg + 1, 0>>

\* lines 112-134: one iteration for dateFiles[i]: download, trim, write.  The
\* download and the write may throw; the catch of line 131 logs and goes on.
SyncProcess ==
  /\ pc = "process"
  /\ g <= Len(filesByDate)
  /\ LET dateStr == filesByDate[g].dateStr
         file == filesByDate[g].dateFiles[i + 1]
         rawText == Trim(file.content)
         filename == SeqFileName(dateStr, i)
         line(what) == [name |-> file.name, created |-> file.created,
                        filename |-> filename, what |-> what]
         step(what) == /\ console' = Append(console, line(what))
                       /\ g' = NextPos(what, filesByDate, g, i)[1]
                       /\ i' = NextPos(what, filesByDate, g, i)[2]
     IN  \/ /\ step("download failed")
            /\ UNCHANGED dir
         \/ /\ rawText = <<>>
            /\ step("empty")
            /\ UNCHANGED dir
         \/ /\ rawText # <<>>
            /\ \/ /\ dir' = WriteFile(dir, filename, rawText)
                  /\ step("processed")
               \/ /\ step("write failed")
                  /\ UNCHANGED dir
  /\ UNCHANGED <<bucket, pc, dirBefore, lastProcessed, files, k, jsonFiles,
                 filesByDate>>
  /\ UNCHANGED <<now, runs, logVars, normVars>>

\* line 137: "Processing completed"
SyncDone ==
  /\ pc = "process"
  /\ g > Len(filesByDate)
  /\ pc' = "done"
  /\ UNCHANGED <<dir, bucket, dirBefore, lastProcessed, files, k, jsonFiles,
                 filesByDate, g, i, console>>
  /\ UNCHANGED <<now, runs, logVars, normVars>>

Next ==
  \/ SyncResolve
  \/ SyncList
  \/ SyncFilter
  \/ SyncGroup
  \/ SyncProcess
  \/ SyncDone

Spec == Init /\ [][Next]_vars

\* ------------------------------------------------ processLogs (part_000)
\* TodayFile with the name of a sequence file
TodayFileIsSequenceFile == SeqFileName(formatDate(EpochDay * TicksPerDay), 0)

\* TODAY_FILE
TodayFile == <<"t", "o", "d", "a", "y">> \o DotJson

\* fs.createWriteStream(path, { flags: "a" }): the content is kept
OpenForAppend(d, name) ==
  [n \in (DOMAIN d) \cup {name} |-> IF n \in DOMAIN d THEN d[n] ELSE <<>>]

\* line 135, fs.createWriteStream(path, { flags: "w" }): the file is created
\* or truncated
OpenForWrite(d, name) == WriteFile(d, name, <<>>)

\* writeStream.write(text): text is added at the end of the file
StreamWrite(d, name, text) == WriteFile(d, name, d[name] \o text)

\* lines 150-152: every value as one line
RECURSIVE JsonLines(_)
JsonLines(jsonData) ==
  IF jsonData = <<>> THEN <<>>
  ELSE JSONStringify(Head(jsonData)) \o <<"\n">> \o JsonLines(Tail(jsonData))

\* the early return of line 124 left out
NeverEmpty(list) == FALSE

\* line 124: jsonFiles.length === 0
IsEmpty(list) == Len(list) = 0

\* LogNextPos with the catch block outside the loop: an error ends it
LogNextPosErrorEnds(what, list, pos) ==
  IF what = "download failed" THEN Len(list) + 1 ELSE pos + 1

\* the position of the loop of line 136 after an iteration that ended as
\* `what`: the continue of line 144, the end of the try block and the catch
\* of lines 157-159 all go on with the next file
LogNextPos(what, list, pos) == pos + 1

\* the clock passes midnight UTC; nothing orders it with respect to the run
Tick ==
  /\ now + 1 \in Days
  /\ now' = now + 1
  /\ UNCHANGED <<dir, bucket, syncVars, logVars, normVars>>

\* LogsStart with the file opened before the listing
LogsStartOpensFile ==
  /\ logPc = "idle"
  /\ today' = now
  /\ logDirBefore' = dir
  /\ dir' = OpenForWrite(dir, TodayFile)
  /\ \/ /\ \E listing \in Orderings(bucket) : logFiles' = listing
        /\ logPc' = "filter"
     \/ /\ logPc' = "failed"
        /\ UNCHANGED logFiles
  /\ UNCHANGED <<bucket, now, logK, logJsonFiles, logPos, writeStream,
                 logConsole, syncVars, normVars>>

\* lines 74-81: the date is read, getFiles() lists the bucket or rejects
LogsStart ==
  /\ logPc = "idle"
  /\ today' = now
  /\ logDirBefore' = dir
  /\ \/ /\ \E listing \in Orderings(bucket) : logFiles' = listing
        /\ logPc' = "filter"
     \/ /\ logPc' = "failed"
        /\ UNCHANGED logFiles
  /\ UNCHANGED <<dir, bucket, now, logK, logJsonFiles, logPos, writeStream,
                 logConsole, syncVars, normVars>>

\* lines 109-122: one iteration of the filter loop; getMetadata() may reject
LogsFilter ==
  /\ logPc = "filter"
  /\ logK <= Len(logFiles)
  /\ LET file == logFiles[logK]
     IN  \/ /\ ~EndsWith(file.name, DotJson) \/ ~isFromToday(file.name, now)
            /\ logK' = logK + 1
            /\ UNCHANGED <<logJsonFiles, logPc>>
         \/ /\ EndsWith(file.name, DotJson) /\ isFromToday(file.name, now)
            /\ \/ /\ logK' = logK + 1
                  /\ logJsonFiles' = Append(logJsonFiles, file)
                  /\ UNCHANGED logPc
               \/ /\ logPc' = "failed"
                  /\ UNCHANGED <<logK, logJsonFiles>>
  /\ UNCHANGED <<dir, bucket, now, today, logFiles, logPos, writeStream,
                 logDirBefore, logConsole, syncVars, normVars>>

\* lines 124-127: nothing for today, the run returns
LogsNothing ==
  /\ logPc = "filter"
  /\ logK > Len(logFiles)
  /\ IsEmpty(logJsonFiles)
  /\ logPc' = "done"
  /\ UNCHANGED <<dir, bucket, now, today, logFiles, logK, logJsonFiles, logPos,
                 writeStream, logDirBefore, logConsole, syncVars, normVars>>

\* lines 130-135: sort by creation time, open TODAY_FILE for writing
LogsOpen ==
  /\ logPc = "filter"
  /\ logK > Len(logFiles)
  /\ ~IsEmpty(logJsonFiles)
  /\ logJsonFiles' = SortByCreated(logJsonFiles)
  /\ dir' = OpenForWrite(dir, TodayFile)
  /\ writeStream' = "open"
  /\ logPos' = 1
  /\ logPc' = "write"
  /\ UNCHANGED <<bucket, now, today, logFiles, logK, logDirBefore, logConsole,
                 syncVars, normVars>>

\* lines 136-160: one iteration: download, parse, write the values as lines.
\* The download may throw; the catch of line 157 logs and goes on.
LogsProcess ==
  /\ logPc = "write"
  /\ logPos <= Len(logJsonFiles)
  /\ LET file == logJsonFiles[logPos]
         rawText == file.content
         jsonData == parseJsonContent(rawText)
         line(what) == [name |-> file.name, created |-> file.created,
                        what |-> what]
         step(what) == /\ logConsole' = Append(logConsole, line(what))
                       /\ logPos' = LogNextPos(what, logJsonFiles, logPos)
     IN  \/ /\ step("download failed")
            /\ UNCHANGED dir
         \/ /\ Trim(rawText) = <<>>
            /\ step("empty")
            /\ UNCHANGED dir
         \/ /\ Trim(rawText) # <<>>
            /\ Len(jsonData) > 0
            /\ dir' = StreamWrite(dir, TodayFile, JsonLines(jsonData))
            /\ step("processed")
         \/ /\ Trim(rawText) # <<>>
            /\ Len(jsonData) = 0
            /\ step("no valid entries")
            /\ UNCHANGED dir
  /\ UNCHANGED <<bucket, now, today, logFiles, logK, logJsonFiles, logPc,
                 writeStream, logDirBefore, syncVars, normVars>>

\* line 162: writeStream.end()
LogsEnd ==
  /\ logPc = "write"
  /\ logPos > Len(logJsonFiles)
  /\ writeStream' = "ended"
  /\ logPc' = "done"
  /\ UNCHANGED <<dir, bucket, now, today, logFiles, logK, logJsonFiles, logPos,
                 logDirBefore, logConsole, syncVars, normVars>>

Slash == <<"/">>

\* two objects under the path of the first day, one under the next day's
LogNames ==
  { formatDatePath(EpochDay) \o Slash \o <<"a">>,
    formatDatePath(EpochDay) \o Slash \o <<"b">>,
    formatDatePath(EpochDay + 1) \o Slash \o <<"c">> }

\* a blank text, one document, two lines, an array over two lines, and a
\* text that holds no JSON
LogTexts ==
  [n \in LogNames |->
     { <<" ">>, <<"1">>, <<"1", "\n", "2">>, <<"[", "2", ",", "\n", "1", "]">>,
       <<"x">> }]

\* processLogs uses the creation times for the order only: the objects of
\* its runs are created within one day
LogInstants == { EpochDay * TicksPerDay + t : t \in TimesOfDay }

OldLines == <<"9", "\n">>

InitLogs ==
  /\ dir \in { <<>>, [n \in {TodayFile} |-> OldLines] }
  /\ bucket \in Buckets(LogNames, LogInstants, LogTexts,
                       OtherObject(formatDatePath(EpochDay) \o Slash \o <<"d">>))
  /\ now = EpochDay
  /\ SyncIdle
  /\ LogsIdle
  /\ NormIdle

NextLogs ==
  \/ Tick
  \/ LogsStart
  \/ LogsFilter
  \/ LogsNothing
  \/ LogsOpen
  \/ LogsProcess
  \/ LogsEnd

SpecLogs == InitLogs /\ [][NextLogs]_vars

\* ------------------------------------------------ the watermark alone
PlainDate == <<"2", "9", "-", "0", "2", "-", "2", "0", "2", "4">>

ResolveNames ==
  { SeqFileName(formatDate(EpochDay * TicksPerDay), 2),
    SeqFileName(formatDate(EpochDay * TicksPerDay), 10),
    SeqFileName(formatDate((EpochDay + 1) * TicksPerDay), 0),
    SeqFileName(formatDate((EpochDay + 1) * TicksPerDay), 1),
    SeqFileName(<<"3", "1">> \o SubSeq(PlainDate, 3, 10), 0),
    <<"r", "e", "a", "d", "m", "e">> \o Txt,
    <<"t", "o", "d", "a", "y">> \o DotJson,
    PlainDate \o DotJson,
    <<"x">> \o SeqFileName(<<"0", "5", "-", "0", "3", "-", "2", "0", "2", "4">>, 5),
    SeqFileName(PlainDate, 11) \o DotJson }

InitResolve ==
  /\ dir \in Dirs(ResolveNames, MaxEntries)
  /\ bucket = {}
  /\ now = EpochDay
  /\ SyncIdle
  /\ LogsIdle
  /\ NormIdle

NextResolve == SyncResolve

SpecResolve == InitResolve /\ [][NextResolve]_vars

\* ------------------------------------------- parseJsonContent alone
TextChars == {"1", "2", "[", "]", ",", " ", "\n", "x"}

Texts == UNION { [1..n -> TextChars] : n \in 0..MaxLen }

InitNorm ==
  /\ dir = <<>>
  /\ bucket = {}
  /\ now = EpochDay
  /\ SyncIdle
  /\ LogsIdle
  /\ content \in Texts
  /\ results = <<>>
  /\ normPc = "call"

Normalize ==
  /\ normPc = "call"
  /\ results' = parseJsonContent(content)
  /\ normPc' = "return"
  /\ UNCHANGED <<dir, bucket, now, syncVars, logVars, content>>

NextNorm == Normalize

SpecNorm == InitNorm /\ [][NextNorm]_vars

\* ------------------------------------------- the two pipelines side by side
\* index.ts and part_000 are two programs over the same bucket and the same
\* OUTPUT_FOLDER (line 12 of both); nothing orders the steps of a run of the
\* one with respect to the steps of a run of the other

\* two objects under the path of the first day
BothNames ==
  { formatDatePath(EpochDay) \o Slash \o <<"a">>,
    formatDatePath(EpochDay) \o Slash \o <<"b">> }

\* one text for each object: a document, and a document with a line feed
\* after it
BothTexts ==
  [n \in BothNames |->
     {IF n = formatDatePath(EpochDay) \o Slash \o <<"a">> THEN <<"1">>
      ELSE <<"2", "\n">>}]

\* the output directory is empty, or holds a combined file and a sequence
\* file of the first day
BothDirs ==
  { <<>>,
    [n \in {TodayFile, SeqFileName(formatDate(EpochDay * TicksPerDay), 0)} |->
       IF n = TodayFile THEN OldLines ELSE OldText] }

InitBoth ==
  /\ dir \in BothDirs
  /\ bucket \in Buckets(BothNames, LogInstants, BothTexts,
                       OtherObject(formatDatePath(EpochDay) \o Slash \o <<"d">>))
  /\ now = EpochDay
  /\ SyncIdle
  /\ LogsIdle
  /\ NormIdle

NextBoth ==
  \/ SyncResolve
  \/ SyncList
  \/ SyncFilter
  \/ SyncGroup
  \/ SyncProcess
  \/ SyncDone
  \/ Tick
  \/ LogsStart
  \/ LogsFilter
  \/ LogsNothing
  \/ LogsOpen
  \/ LogsProcess
  \/ LogsEnd

SpecBoth == InitBoth /\ [][NextBoth]_vars

\* ------------------------------------------------ one sync run after another
\* two objects of the bucket
RunNames == { <<"a">>, <<"b">> }

RunTexts ==
  [n \in RunNames |-> {IF n = <<"a">> THEN <<"1">> ELSE <<" ", "2">>}]

\* index.ts line 144: the program is started again after a run that ended
SyncAgain ==
  /\ pc \in {"done", "failed"}
  /\ Len(runs) + 1 < MaxRuns
  /\ runs' = Append(runs, [before |-> dirBefore, bucket |-> bucket, dir |-> dir,
                           clean |-> /\ pc = "done"
                                     /\ \A j \in 1..Len(console) :
                                          console[j].what \notin
                                            {"download failed", "write failed"}])
  /\ pc' = "idle"
  /\ dirBefore' = dir
  /\ lastProcessed' = NoProcessedFile
  /\ files' = <<>>
  /\ k' = 1
  /\ jsonFiles' = <<>>
  /\ filesByDate' = <<>>
  /\ g' = 1
  /\ i' = 0
  /\ console' = <<>>
  /\ UNCHANGED <<dir, bucket, now, logVars, normVars>>

\* between two runs the bucket gains an object, created after all it holds
BucketGains ==
  /\ pc = "idle"
  /\ Cardinality(bucket) < MaxObjects
  /\ \E n \in RunNames, t \in Instants :
       /\ \A o \in bucket : o.name # n \o DotJson /\ o.created < t
       /\ \E text \in RunTexts[n] :
            bucket' = bucket \cup {[name |-> n \o DotJson, created |-> t,
                                    content |-> text]}
  /\ UNCHANGED <<dir, now, syncVars, logVars, normVars>>

InitRuns ==
  /\ dir \in { <<>>,
               [n \in {SeqFileName(formatDate(EpochDay * TicksPerDay), 0)} |->
                  OldText] }
  /\ bucket \in Buckets(RunNames, Instants, RunTexts, OtherObject(<<"d">>))
  /\ now = EpochDay
  /\ SyncIdle
  /\ LogsIdle
  /\ NormIdle

NextRuns ==
  \/ SyncResolve
  \/ SyncList
  \/ SyncFilter
  \/ SyncGroup
  \/ SyncProcess
  \/ SyncDone
  \/ SyncAgain
  \/ BucketGains

SpecRuns == InitRuns /\ [][NextRuns]_vars

\* ================================================================ claims
Failures == {"download failed", "write failed"}

Started == pc \in {"process", "done"}

IsJson(o) == EndsWith(o.name, DotJson)

DayOf(t) == t \div TicksPerDay

\* C1: every file that existed before a sync run has the same content after
\* it, and every file the run writes has a name that did not exist before.
C1_NeverOverwrites ==
  /\ \A n \in DOMAIN dirBefore : n \in DOMAIN dir /\ dir[n] = dirBefore[n]
  /\ \A j \in 1..Len(console) :
        console[j].what = "processed" => console[j].filename \notin DOMAIN dirBefore

\* C2: with the newest local files being of date D, the run excludes every
\* object created on date D or earlier, whatever its time of day, and leaves
\* the files that existed as they were.
C2_ExcludesWatermarkDay ==
  (Started /\ lastProcessed.has) =>
     /\ \A f \in Range(jsonFiles) : DayOf(f.created) > DayOf(lastProcessed.date)
     /\ \A n \in DOMAIN dirBefore : n \in DOMAIN dir /\ dir[n] = dirBefore[n]

\* the objects the filter of lines 78-92 is to keep
Candidates ==
  { o \in bucket :
      IsJson(o) /\ ~(lastProcessed.has /\ o.created <= lastProcessed.date) }

SameDate(o, dateStr) == formatDate(o.created) = dateStr

LinesOf(dateStr) == { j \in 1..Len(console) : SameDate(console[j], dateStr) }

DateStrs == { formatDate(d * TicksPerDay) : d \in Days }

\* C3 as stated: at the end of a run the files written for a date carry the
\* numbers 0, ..., k-1 without gaps, also when objects of the date were skipped.
C3_NoGaps ==
  pc = "done" =>
    \A dateStr \in DateStrs :
      LET written == { console[j].filename :
                         j \in { x \in LinesOf(dateStr) : console[x].what = "processed" } }
      IN  written = { SeqFileName(dateStr, n) : n \in 0..(Cardinality(written) - 1) }

\* C3 amended: the file name of an object carries the object's position in
\* its date's group, the group being in ascending creation-time order; two
\* objects never share a name; and the numbers written for a date are
\* 0, ..., k-1 when no object of the date was skipped.
C3_PositionInGroup ==
  Started =>
    LET kept == Candidates
        group(day) == { o \in kept : DayOf(o.created) = day }
        lines(day) == { j \in 1..Len(console) : DayOf(console[j].created) = day }
    IN  /\ \A j \in 1..Len(console) :
             LET line == console[j]
                 mates == group(DayOf(line.created))
                 before == Cardinality({ o \in mates : o.created < line.created })
                 upTo == Cardinality({ o \in mates : o.created <= line.created })
                 dateStr == formatDate(line.created)
             IN  /\ \E n \in before..(upTo - 1) :
                       line.filename = SeqFileName(dateStr, n)
                 /\ \A j2 \in 1..Len(console) :
                       j2 # j => console[j2].filename # line.filename
        /\ pc = "done" =>
             \A day \in { DayOf(o.created) : o \in kept } :
               (\A j \in lines(day) : console[j].what = "processed") =>
                  { console[j].filename : j \in lines(day) } =
                  { SeqFileName(formatDate(day * TicksPerDay), n) :
                      n \in 0..(Cardinality(group(day)) - 1) }

\* a run that skipped the first object of a date and wrote the second
C3_Witness ==
  /\ pc = "done"
  /\ \E j, j2 \in 1..Len(console) :
        /\ j < j2
        /\ console[j].what = "empty"
        /\ console[j2].what = "processed"
        /\ SameDate(console[j], formatDate(console[j2].created))

\* C4: no object created at or before the watermark date is downloaded or
\* written, and without a watermark every .json object is a candidate.
C4_NotNewerNotDownloaded ==
  Started =>
    /\ lastProcessed.has =>
         \A o \in bucket :
           o.created <= lastProcessed.date =>
             /\ o \notin Range(jsonFiles)
             /\ \A j \in 1..Len(console) : console[j].name # o.name
    /\ ~lastProcessed.has => Range(jsonFiles) = { o \in bucket : IsJson(o) }

\* a finished run with a watermark, an object at or before it, and a newer
\* object that was written
C4_Witness ==
  /\ pc = "done"
  /\ lastProcessed.has
  /\ \E o \in bucket : IsJson(o) /\ o.created <= lastProcessed.date
  /\ \E j \in 1..Len(console) : console[j].what = "processed"

\* C10: a download or write failure on one object does not end the run: the
\* run never fails after it and can always take its next step, every filtered
\* object is processed in order, and each object processed without failure
\* and with content has its file.
C10_FailureDoesNotAbort ==
  /\ pc = "failed" => console = <<>>
  /\ pc = "process" => ENABLED (SyncProcess \/ SyncDone)
  /\ pc = "done" =>
       /\ Len(console) = Len(jsonFiles)
       /\ \A j \in 1..Len(console) :
            /\ console[j].name = jsonFiles[j].name
            /\ (console[j].what \notin Failures /\ Trim(jsonFiles[j].content) # <<>>) =>
                 /\ console[j].what = "processed"
                 /\ console[j].filename \in DOMAIN dir
                 /\ dir[console[j].filename] = Trim(jsonFiles[j].content)

\* a finished run in which a failure is followed by a file written
C10_Witness ==
  /\ pc = "done"
  /\ \E j, j2 \in 1..Len(console) :
        /\ j < j2
        /\ console[j].what \in Failures
        /\ console[j2].what = "processed"

\* the entries the pattern of line 35 is found in
Matches(file) == EndsWith(file, DotJson) /\ Match(file).ok

DateOfName(file) ==
  MakeDay(ParseInt(Match(file).year), ParseInt(Match(file).month) - 1,
          ParseInt(Match(file).day)) * TicksPerDay

SeqOfName(file) == ParseInt(Match(file).sequence)

\* C5: whatever the order of the entries, the resolver returns the
\* lexicographic maximum of the (date, sequence) pairs of the matching
\* entries, and nothing when no entry matches.
C5_LexicographicMaximum ==
  pc = "list" =>
    LET matching == { e \in DOMAIN dirBefore : Matches(e) }
    IN  /\ lastProcessed.has = (matching # {})
        /\ matching = {} => lastProcessed = NoProcessedFile
        /\ matching # {} =>
             /\ \E e \in matching : /\ DateOfName(e) = lastProcessed.date
                                    /\ SeqOfName(e) = lastProcessed.sequence
             /\ \A e \in matching :
                   \/ DateOfName(e) < lastProcessed.date
                   \/ /\ DateOfName(e) = lastProcessed.date
                      /\ SeqOfName(e) <= lastProcessed.sequence

\* a directory with two matching entries of the latest date and one of an
\* earlier date with a larger sequence
C5_Witness ==
  /\ pc = "list"
  /\ \E e1, e2, e3 \in DOMAIN dirBefore :
        /\ Matches(e1) /\ Matches(e2) /\ Matches(e3)
        /\ DateOfName(e1) = DateOfName(e2) /\ SeqOfName(e1) < SeqOfName(e2)
        /\ DateOfName(e3) < DateOfName(e1) /\ SeqOfName(e3) > SeqOfName(e2)
        /\ lastProcessed = Processed(DateOfName(e2), SeqOfName(e2))

\* the whole name is DD-MM-YYYY-S<digits>.json
WholeNameMatches(file) ==
  MatchesAt(file, 1) /\ 12 + DigitRun(file, 13) + Len(DotJson) = Len(file)

\* C6: an entry whose whole name is not DD-MM-YYYY-S<digits>.json has no
\* effect: the resolver returns the same with the entry removed.
C6_OtherNamesIgnored ==
  pc = "list" =>
    \A e \in DOMAIN dirBefore :
      ~WholeNameMatches(e) =>
         \A listing \in Orderings((DOMAIN dirBefore) \ {e}) :
            getLatestProcessedFile(listing) = lastProcessed

\* the positions of the line feeds of s, with the two ends of s
Breaks(s) == {0, Len(s) + 1} \cup { p \in 1..Len(s) : s[p] = "\n" }

\* the lines of s: what stands between two neighbouring breaks, trimmed
LinesOfText(s) ==
  { <<a, Trim(SubSeq(s, a + 1, b - 1))>> :
      <<a, b>> \in { x \in Breaks(s) \X Breaks(s) :
                       /\ x[1] < x[2]
                       /\ \A c \in Breaks(s) : ~(x[1] < c /\ c < x[2]) } }

\* C9: normalize returns nothing for a blank text, the elements of a text
\* that is one JSON array, the one value of a text that is one other JSON
\* value, and otherwise the values of the non-blank trimmed lines that parse,
\* in line order, the other lines contributing nothing.
C9_Normalize ==
  normPc = "return" =>
    LET t == Trim(content)
        good == { l \in LinesOfText(t) : l[2] # <<>> /\ JSONParse(l[2]).ok }
    IN  /\ t = <<>> => results = <<>>
        /\ (t # <<>> /\ JSONParse(t).ok /\ JSONParse(t).val.t = "arr") =>
              results = JSONParse(t).val.els
        /\ (t # <<>> /\ JSONParse(t).ok /\ JSONParse(t).val.t # "arr") =>
              results = <<JSONParse(t).val>>
        /\ (t # <<>> /\ ~JSONParse(t).ok) =>
              /\ Len(results) = Cardinality(good)
              /\ \A l \in good :
                    results[Cardinality({ m \in good : m[1] <= l[1] })] =
                       JSONParse(l[2]).val

\* a text that is no JSON document, with a line that parses after a line
\* that does not
C9_Witness ==
  /\ normPc = "return"
  /\ content = <<"x", "\n", "1">>
  /\ results = <<Num(1)>>

\* the objects of today's path: a .json name that holds the fragment of day
MatchingAt(day) == { o \in bucket : IsJson(o) /\ Includes(o.name, formatDatePath(day)) }

Ascending(order) ==
  \A a, b \in 1..Len(order) : a < b => order[a].created <= order[b].created

\* the values an object adds to the combined file: none when its download
\* failed or its text is blank
ValuesOf(o) ==
  IF \E j \in 1..Len(logConsole) :
        logConsole[j].name = o.name /\ logConsole[j].what = "download failed"
    THEN <<>>
  ELSE IF Trim(o.content) = <<>> THEN <<>>
  ELSE parseJsonContent(o.content)

RECURSIVE ValuesOfAll(_)
ValuesOfAll(order) ==
  IF order = <<>> THEN <<>> ELSE ValuesOf(Head(order)) \o ValuesOfAll(Tail(order))

\* C7: after a run that found a matching object the combined file holds
\* nothing of its previous content: it is, for the matching objects in
\* ascending creation-time order, the normalized values of each downloaded,
\* non-blank object, one value per line.
C7_CombinedFile ==
  (logPc = "done" /\ writeStream = "ended") =>
     /\ now = today => Range(logJsonFiles) = MatchingAt(today)
     /\ Range(logJsonFiles) # {}
     /\ \E order \in Orderings(Range(logJsonFiles)) :
           /\ Ascending(order)
           /\ LET values == ValuesOfAll(order)
              IN  SplitLines(dir[TodayFile]) =
                    [j \in 1..(Len(values) + 1) |->
                       IF j <= Len(values) THEN JSONStringify(values[j]) ELSE <<>>]

\* a combined file that existed is replaced by the three lines of one
\* document created before a text of two lines
C7_Witness ==
  /\ logPc = "done"
  /\ TodayFile \in DOMAIN logDirBefore
  /\ Len(logJsonFiles) = 2
  /\ logJsonFiles[1].created < logJsonFiles[2].created
  /\ logJsonFiles[1].content = <<"1">>
  /\ logJsonFiles[2].content = <<"1", "\n", "2">>
  /\ dir[TodayFile] = <<"1", "\n", "1", "\n", "2", "\n">>

\* C8: a run that finds no .json object of today's path does not open,
\* truncate or change the combined file.
C8_NothingForToday ==
  logPc = "done" =>
    /\ (\A day \in today..now : MatchingAt(day) = {}) => logJsonFiles = <<>>
    /\ logJsonFiles = <<>> => (dir = logDirBefore /\ writeStream = "none")

\* a run over a bucket that holds objects, none of today, which ends with
\* the combined file that existed before
C8_Witness ==
  /\ logPc = "done"
  /\ bucket # {}
  /\ MatchingAt(today) = {}
  /\ writeStream = "none"
  /\ TodayFile \in DOMAIN dir
  /\ dir[TodayFile] = OldLines

\* what the iterations from j on wrote to the combined file: the lines of
\* the objects logged as processed
RECURSIVE LinesLogged(_)
LinesLogged(j) ==
  IF j > Len(logConsole) THEN <<>>
  ELSE (IF logConsole[j].what = "processed"
          THEN JsonLines(parseJsonContent(logJsonFiles[j].content))
          ELSE <<>>) \o LinesLogged(j + 1)

\* C11: a failure on one matching object does not end an aggregation run:
\* the run never fails after it and can always take its next step, every
\* matching object is processed in creation-time order, the combined file
\* holds the lines of every object that did not fail, and the file is closed
\* only after the last object.
C11_LogFailureDoesNotAbort ==
  /\ logPc = "failed" => logConsole = <<>>
  /\ logPc = "write" => ENABLED (LogsProcess \/ LogsEnd)
  /\ writeStream = "ended" =>
       /\ logPc = "done"
       /\ Len(logConsole) = Len(logJsonFiles)
       /\ Ascending(logJsonFiles)
       /\ \A j \in 1..Len(logConsole) :
            /\ logConsole[j].name = logJsonFiles[j].name
            /\ (/\ logConsole[j].what # "download failed"
                /\ parseJsonContent(logJsonFiles[j].content) # <<>>) =>
                  logConsole[j].what = "processed"
       /\ dir[TodayFile] = LinesLogged(1)

\* a finished run in which a failed download is followed by an object whose
\* lines are in the closed file
C11_Witness ==
  /\ logPc = "done"
  /\ writeStream = "ended"
  /\ dir[TodayFile] # <<>>
  /\ \E j, j2 \in 1..Len(logConsole) :
        /\ j < j2
        /\ logConsole[j].what = "download failed"
        /\ logConsole[j2].what = "processed"

\* C14: the objects a run matched are the .json keys that hold the path
\* fragment of the day the run started, also when the UTC date changes
\* while the run is filtering.
C14_OneFragment ==
  logPc \in {"write", "done"} => Range(logJsonFiles) = MatchingAt(today)

\* t is s without the white space at its two ends, and nothing else changed
IsTrimOf(t, s) ==
  \E a \in 0..Len(s) :
    /\ a + Len(t) <= Len(s)
    /\ SubSeq(s, a + 1, a + Len(t)) = t
    /\ \A p \in 1..Len(s) : (p <= a \/ p > a + Len(t)) => IsSpace(s[p])
    /\ t # <<>> => ~IsSpace(t[1]) /\ ~IsSpace(t[Len(t)])

ObjectOf(consoleLine) ==
  CHOOSE o \in bucket :
    o.name = consoleLine.name /\ o.created = consoleLine.created

\* C15: every file a sync run created or changed is the file of one object
\* the run wrote; the file of a written object holds the object's content
\* without the white space at its ends, not empty and otherwise unchanged;
\* the object's name ends in .json and it was created after the watermark
\* date; no two objects of a run have the same file; and an object whose
\* trimmed content is empty leaves the directory as it was.
C15_WrittenIsTrimmedObject ==
  Started =>
    /\ \A n \in DOMAIN dir :
         (n \notin DOMAIN dirBefore \/ dir[n] # dirBefore[n]) =>
            \E j \in 1..Len(console) :
              console[j].what = "processed" /\ console[j].filename = n
    /\ \A j \in 1..Len(console) :
         LET o == ObjectOf(console[j])
             n == console[j].filename
         IN  /\ o \in bucket
             /\ IsJson(o)
             /\ lastProcessed.has => o.created > lastProcessed.date
             /\ \A j2 \in 1..Len(console) : console[j2].filename = n => j2 = j
             /\ console[j].what = "processed" =>
                  /\ n \in DOMAIN dir
                  /\ dir[n] # <<>>
                  /\ IsTrimOf(dir[n], o.content)
             /\ console[j].what = "empty" =>
                  /\ \A p \in 1..Len(o.content) : IsSpace(o.content[p])
                  /\ n \in DOMAIN dir =>
                       n \in DOMAIN dirBefore /\ dir[n] = dirBefore[n]
             /\ (\A p \in 1..Len(o.content) : IsSpace(o.content[p])) =>
                  console[j].what # "processed"

\* a finished run with a watermark that wrote an object whose content has
\* white space at both ends, or only at its end, and skipped an empty one
C15_Witness ==
  /\ pc = "done"
  /\ lastProcessed.has
  /\ \E j, j2 \in 1..Len(console) :
        /\ console[j].what = "processed"
        /\ IsSpace(ObjectOf(console[j]).content[Len(ObjectOf(console[j]).content)])
        /\ dir[console[j].filename] # ObjectOf(console[j]).content
        /\ console[j2].what = "empty"

\* the name of the combined file, as the specification gives it
CombinedName == <<"t", "o", "d", "a", "y", ".", "j", "s", "o", "n">>

SameIn(n, d1, d2) ==
  /\ n \in DOMAIN d1 <=> n \in DOMAIN d2
  /\ n \in DOMAIN d1 => d1[n] = d2[n]

WrittenAs(n) ==
  { j \in 1..Len(console) :
      console[j].what = "processed" /\ console[j].filename = n }

\* C12: the two pipelines never touch the same file. Whatever the
\* interleaving of a sync run and an aggregation run: the watermark is the
\* one of the directory without the combined file; the sync run writes no
\* file of the combined file's name; every other file is as the sync run
\* alone left it (as before the run, or the trimmed content of the object
\* written under that name); and the combined file is as the aggregation
\* run alone left it (as before the run until it is opened, then the lines
\* the run wrote).
C12_PipelinesApart ==
  /\ pc # "idle" =>
       /\ \A listing \in Orderings((DOMAIN dirBefore) \ {CombinedName}) :
            getLatestProcessedFile(listing) = lastProcessed
       /\ \A j \in 1..Len(console) : console[j].filename # CombinedName
       /\ \A n \in ((DOMAIN dir) \cup (DOMAIN dirBefore)) \ {CombinedName} :
            IF WrittenAs(n) = {} THEN SameIn(n, dir, dirBefore)
            ELSE /\ n \in DOMAIN dir
                 /\ \E j \in WrittenAs(n) :
                      IsTrimOf(dir[n], ObjectOf(console[j]).content)
       /\ logPc = "idle" => SameIn(CombinedName, dir, dirBefore)
  /\ logPc # "idle" =>
       /\ IF writeStream = "none" THEN SameIn(CombinedName, dir, logDirBefore)
          ELSE CombinedName \in DOMAIN dir /\ dir[CombinedName] = LinesLogged(1)
       /\ pc = "idle" =>
            \A n \in ((DOMAIN dir) \cup (DOMAIN logDirBefore)) \ {CombinedName} :
               SameIn(n, dir, logDirBefore)

\* the two runs are over and their steps were interleaved: the aggregation
\* run started between two writes of the sync run, and wrote lines to the
\* combined file
C12_Witness ==
  /\ pc = "done"
  /\ logPc = "done"
  /\ writeStream = "ended"
  /\ dir[CombinedName] # <<>>
  /\ \E n1 \in (DOMAIN logDirBefore) \ (DOMAIN dirBefore) :
     \E n2 \in (DOMAIN dir) \ (DOMAIN logDirBefore) : n2 # CombinedName

NoTies(S) == \A x, y \in S : x.created = y.created => x = y

\* the number of the objects of S created on the day of o and before o
RankInDate(o, S) ==
  Cardinality({ x \in S : /\ DayOf(x.created) = DayOf(o.created)
                          /\ x.created < o.created })

\* objects of equal creation time stand in `sorted` as they stand in `listing`
TiesAsListed(sorted, listing) ==
  \A a, b \in 1..Len(sorted) :
    (a < b /\ sorted[a].created = sorted[b].created) =>
       \E la, lb \in 1..Len(listing) :
          la < lb /\ listing[la] = sorted[a] /\ listing[lb] = sorted[b]

\* C13 as stated: the order in which a run processes the objects it filtered
\* is the same in whatever order the listing returned them, also when two of
\* them have equal creation timestamps.
C13_OrderWhateverTheListing ==
  /\ Started =>
       \A ordering \in Orderings(Range(jsonFiles)) :
          /\ SortByCreated(ordering) = jsonFiles
          /\ GroupByDate(<<>>, SortByCreated(ordering)) = filesByDate
  /\ logPc \in {"write", "done"} =>
       \A ordering \in Orderings(Range(logJsonFiles)) :
          SortByCreated(ordering) = logJsonFiles

\* C13 (amended): a run processes the objects it filtered in ascending
\* creation-time order, objects of equal timestamps in the order of the
\* listing. When no two filtered objects have equal timestamps the order,
\* the sequence number of every object and the order of the lines of the
\* combined file are the same in whatever order the listing returned them.
C13_OrderWithoutTies ==
  /\ Started =>
       /\ Ascending(jsonFiles)
       /\ TiesAsListed(jsonFiles, files)
       /\ NoTies(Range(jsonFiles)) =>
            /\ \A ordering \in Orderings(Range(jsonFiles)) :
                 /\ SortByCreated(ordering) = jsonFiles
                 /\ GroupByDate(<<>>, SortByCreated(ordering)) = filesByDate
            /\ \A j \in 1..Len(console) :
                 console[j].filename =
                   SeqFileName(formatDate(console[j].created),
                               RankInDate(ObjectOf(console[j]), Range(jsonFiles)))
  /\ logPc \in {"write", "done"} =>
       /\ Ascending(logJsonFiles)
       /\ TiesAsListed(logJsonFiles, logFiles)
       /\ NoTies(Range(logJsonFiles)) =>
            /\ \A ordering \in Orderings(Range(logJsonFiles)) :
                 SortByCreated(ordering) = logJsonFiles
            /\ \A j \in 1..Len(logConsole) :
                 logConsole[j].name = logJsonFiles[j].name

\* both runs are over, each processed two objects of different timestamps
\* that its listing returned the later one first, and each wrote both
C13_Witness ==
  /\ pc = "done"
  /\ logPc = "done"
  /\ Len(jsonFiles) = 2 /\ NoTies(Range(jsonFiles))
  /\ Len(logJsonFiles) = 2 /\ NoTies(Range(logJsonFiles))
  /\ \E a, b \in 1..Len(files) :
        a < b /\ files[a] = jsonFiles[2] /\ files[b] = jsonFiles[1]
  /\ \E a, b \in 1..Len(logFiles) :
        a < b /\ logFiles[a] = logJsonFiles[2] /\ logFiles[b] = logJsonFiles[1]
  /\ \A j \in 1..2 : console[j].what = "processed"
  /\ \A j \in 1..2 : logConsole[j].what = "processed"

SyncStep ==
  SyncResolve \/ SyncList \/ SyncFilter \/ SyncGroup \/ SyncProcess \/ SyncDone

LogsStep ==
  LogsStart \/ LogsFilter \/ LogsNothing \/ LogsOpen \/ LogsProcess \/ LogsEnd

\* C16: a run that failed as a whole (the listing or the metadata of an
\* object was refused) takes no further step and failed before any local
\* write: a failed sync run has handled no object and every sequence file is
\* as it was before the run; a failed aggregation run has not opened the
\* combined file, which is as it was before the run.
C16_WholeRunFailureBeforeWrites ==
  /\ pc = "failed" =>
       /\ ~ENABLED SyncStep
       /\ console = <<>>
       /\ \A n \in ((DOMAIN dir) \cup (DOMAIN dirBefore)) \ {CombinedName} :
            SameIn(n, dir, dirBefore)
  /\ logPc = "failed" =>
       /\ ~ENABLED LogsStep
       /\ writeStream = "none"
       /\ logConsole = <<>>
       /\ SameIn(CombinedName, dir, logDirBefore)

\* both runs failed, the sync run on the metadata of its second object and
\* the aggregation run on the metadata of an object, with a combined file
\* and a sequence file in the directory
C16_Witness ==
  /\ pc = "failed"
  /\ k = 2
  /\ Len(jsonFiles) = 1
  /\ logPc = "failed"
  /\ logK <= Len(logFiles)
  /\ CombinedName \in DOMAIN dir
  /\ dir[CombinedName] # <<>>
  /\ \E n \in DOMAIN dir : n # CombinedName

Clean(what) == \A j \in 1..Len(what) : what[j].what \notin Failures

\* C17: a sync run made after a run that ended without failure, over the
\* same objects, leaves the directory with the names and contents the first
\* run left.
C17_SecondRunChangesNothing ==
  (/\ pc = "done"
   /\ Clean(console)
   /\ runs # <<>>
   /\ runs[Len(runs)].clean
   /\ runs[Len(runs)].bucket = bucket) => dir = runs[Len(runs)].dir

FirstBefore == IF runs = <<>> THEN dirBefore ELSE runs[1].before

\* C18: after runs without failure that started from an empty directory,
\* the bucket having only gained objects created after all it held, every
\* .json object with content has its trimmed content in a file, and every
\* content an earlier run left is still in a file.
C18_NothingLost ==
  (/\ pc = "done"
   /\ Clean(console)
   /\ \A r \in 1..Len(runs) : runs[r].clean
   /\ FirstBefore = <<>>) =>
     /\ \A o \in bucket :
          (IsJson(o) /\ Trim(o.content) # <<>>) =>
             \E n \in DOMAIN dir : dir[n] = Trim(o.content)
     /\ \A r \in 1..Len(runs) : \A n \in DOMAIN runs[r].dir :
          \E n2 \in DOMAIN dir : dir[n2] = runs[r].dir[n]

====
